---- MODULE Spec2Model ----
(***************************************************************************)
(* SPPmigrate.py: do_copy walks a source tree, derives a target directory  *)
(* for every source directory, asks the operator twice, then runs copy_dir *)
(* on every (source, target) pair; copy_dir runs copy_file (ditto followed *)
(* by two MD5 checksums) on every regular file and os.mkdir on the target  *)
(* of a directory without files.                                           *)
(*                                                                         *)
(* A path is a sequence of components; an absolute path starts with "/".   *)
(***************************************************************************)
EXTENDS Integers, Sequences, FiniteSets, TLC

\* ---------------------------------------------------------------- bounds
MaxDepth == 2          \* depth of the source tree below its root
MaxDirs == 3           \* directories of the source tree of a whole run, root included
MaxPlanDirs == 5       \* directories of the source tree when only the plan is made
MaxFilesPerDir == 2    \* regular files directly inside one directory
MaxFiles == 2          \* regular files of the whole source tree
MaxResponses == 2      \* lines the operator types at one prompt
ChunkSize == 1         \* bytes per read of checksum_md5 (8192 in the code)

DirNames == {"a", "b"}
FileNames == <<"f1", "f2", "f3", "f4">>
Contents == {<<>>, <<7>>, <<7, 9>>}
Lines == {<<>>, <<"y">>, <<"N", "o">>, <<"Y">>, <<"n">>, <<"x">>}

cwd == <<"/", "w">>
SourceArgs == {<<"s">>, <<".", "s">>}
RunSourceArgs == {<<"s">>}
TargetArgs == {<<"t">>}

\* ------------------------------------------------------------ sequences
Range(s) == {s[i] : i \in 1..Len(s)}

IsPrefix(s, t) == Len(s) <= Len(t) /\ SubSeq(t, 1, Len(s)) = s

Front(s) == SubSeq(s, 1, Len(s) - 1)

Last(s) == s[Len(s)]

RECURSIVE SeqsUpTo(_, _)
SeqsUpTo(S, n) ==
    IF n = 0 THEN {<<>>}
    ELSE LET shorter == SeqsUpTo(S, n - 1)
         IN  shorter \cup {Append(s, x) : s \in shorter, x \in S}

Perms(S) == {p \in SeqsUpTo(S, Cardinality(S)) : Len(p) = Cardinality(S) /\ Range(p) = S}

\* ------------------------------------------------------------- os.path
IsAbs(p) == p # <<>> /\ p[1] = "/"

\* os.path.join(a, b): an absolute b replaces a
join(a, b) == IF IsAbs(b) THEN b ELSE a \o b

\* os.path.normpath: "." is dropped, ".." removes the component before it
RECURSIVE NormFrom(_, _)
NormFrom(done, rest) ==
    IF rest = <<>> THEN done
    ELSE LET c == Head(rest)
         IN  IF c = "." THEN NormFrom(done, Tail(rest))
             ELSE IF c = ".."
                  THEN IF done = <<>> \/ Last(done) = ".."
                       THEN NormFrom(Append(done, c), Tail(rest))
                       ELSE IF done = <<"/">>
                            THEN NormFrom(done, Tail(rest))
                            ELSE NormFrom(Front(done), Tail(rest))
                  ELSE NormFrom(Append(done, c), Tail(rest))

normpath(p) == LET n == NormFrom(<<>>, p) IN IF n = <<>> THEN <<".">> ELSE n

abspath(p) == normpath(IF IsAbs(p) THEN p ELSE join(cwd, p))

RECURSIVE CommonLen(_, _)
CommonLen(s, t) ==
    IF s = <<>> \/ t = <<>> \/ Head(s) # Head(t) THEN 0
    ELSE 1 + CommonLen(Tail(s), Tail(t))

\* os.path.relpath(path, start): ".." for what is left of start, then
\* what is left of path; "." when nothing is left
relpath(path, start) ==
    LET p == abspath(path)
        s == abspath(start)
        i == CommonLen(s, p)
        rel == [k \in 1..(Len(s) - i) |-> ".."] \o SubSeq(p, i + 1, Len(p))
    IN  IF rel = <<>> THEN <<".">> ELSE rel

dirname(p) == Front(p)

\* -------------------------------------------------------- source tree
RelDirs == SeqsUpTo(DirNames, MaxDepth)

Closed(t) == \A d \in t : d = <<>> \/ Front(d) \in t

\* the trees of at most n directories: the root alone, or a smaller tree with
\* one more directory inside a directory of it
RECURSIVE Trees(_)
Trees(n) ==
    IF n <= 1 THEN {{<<>>}}
    ELSE LET smaller == Trees(n - 1)
         IN  {u \in smaller \cup {t \cup {d} : t \in smaller, d \in RelDirs} : Closed(u)}

FileCounts == 0..MaxFilesPerDir

RECURSIVE SumOver(_, _)
SumOver(f, S) ==
    IF S = {} THEN 0
    ELSE LET x == CHOOSE y \in S : TRUE IN f[x] + SumOver(f, S \ {x})

SourceTrees(n) ==
    {fs \in UNION {[t -> FileCounts] : t \in Trees(n)} : SumOver(fs, DOMAIN fs) <= MaxFiles}

\* ------------------------------------------------------------ the state
VARIABLES
    srcfs,        \* source tree: directory below the root -> number of its regular files
    source,       \* sys.argv[1]
    target,       \* sys.argv[2]
    tgtDirs,      \* directories that exist outside the source tree
    tgtFiles,     \* files that exist outside the source tree
    pc,           \* where do_copy is
    source_root,  \* do_copy locals
    source_list,
    copy_list,
    idx,          \* position of the loop of do_copy in copy_list
    pos,          \* position of the loop of copy_dir in the files of the directory
    dir_count,    \* file_count and error_count of copy_dir
    total,        \* file_count and error_count of do_copy
    retval,       \* what do_copy returned, <<>> before that
    exc,          \* the exception that ended do_copy, "" when none
    answers,      \* what query_yes_no returned, per prompt
    shown,        \* the "Will copy" lines printed
    calls,        \* the copy_dir calls made
    attempted,    \* the files the current copy_dir call passed to copy_file
    failed,       \* how many of them copy_file returned False for
    last,         \* the latest copy_file call
    results,      \* the copy_dir calls that returned
    writes        \* ditto and os.mkdir invocations so far

vars == <<srcfs, source, target, tgtDirs, tgtFiles, pc, source_root, source_list,
          copy_list, idx, pos, dir_count, total, retval, exc, answers, shown,
          calls, attempted, failed, last, results, writes>>

\* --------------------------------------------------- source file system
SrcRoot == abspath(<<"s">>)

\* the directory of the source tree a path leads to
RelOf(p) == SubSeq(abspath(p), Len(SrcRoot) + 1, Len(abspath(p)))

isdir(fs, p) == IsPrefix(SrcRoot, abspath(p)) /\ RelOf(p) \in DOMAIN fs

\* the regular files of a source directory, as os.listdir and os.path.isfile give them
listfiles(fs, p) == [k \in 1..fs[RelOf(p)] |-> FileNames[k]]

\* the sub-directories of a source directory, in the order the listing has them
listdirs(fs, p, ord) == SelectSeq(ord, LAMBDA n : Append(RelOf(p), n) \in DOMAIN fs)

\* os.walk(top), top-down: a directory is yielded before the walk goes into
\* its sub-directories, in the order of its listing, and before the walk
\* returns to what is left of the directories above it (todo)
RECURSIVE walk_from(_, _, _)
walk_from(fs, todo, ord) ==
    IF todo = <<>> THEN <<>>
    ELSE LET top == Head(todo)
             dirs == listdirs(fs, top, ord)
             below == [i \in 1..Len(dirs) |-> join(top, <<dirs[i]>>)]
         IN  <<[path |-> top, dirs |-> dirs, files |-> listfiles(fs, top)]>>
             \o walk_from(fs, below \o Tail(todo), ord)

walk(fs, top, ord) == walk_from(fs, <<top>>, ord)

\* ------------------------------------------------------------- prompts
Lower(c) == CASE c = "Y" -> "y" [] c = "N" -> "n" [] OTHER -> c

\* query_yes_no on the lines the operator types: the first line that starts
\* with y or n decides; an empty line raises IndexError at [0]
RECURSIVE query_yes_no(_)
query_yes_no(lines) ==
    IF lines = <<>> THEN "waiting"
    ELSE IF Head(lines) = <<>> THEN "IndexError"
         ELSE LET response == Lower(Head(lines)[1])
              IN  IF response \in {"y", "n"} THEN response
                  ELSE query_yes_no(Tail(lines))

\* what the operator types at one prompt, up to the line that ends the call
Typed == {ls \in SeqsUpTo(Lines, MaxResponses) :
            /\ ls # <<>>
            /\ query_yes_no(ls) # "waiting"
            /\ query_yes_no(Front(ls)) = "waiting"}

\* the test `query_yes_no(...) == False`: query_yes_no returns the string
\* 'y' or 'n', and in Python a string never equals False
Declined(response) == IF response \in {"y", "n"} THEN FALSE ELSE response = FALSE

\* ------------------------------------------------------------ checksums
HexDigits == <<"0", "1", "2", "3", "4", "5", "6", "7",
               "8", "9", "a", "b", "c", "d", "e", "f">>

\* f.read(n) until it returns b''
RECURSIVE Chunks(_)
Chunks(content) ==
    IF content = <<>> THEN <<>>
    ELSE IF Len(content) <= ChunkSize THEN <<content>>
         ELSE <<SubSeq(content, 1, ChunkSize)>>
              \o Chunks(SubSeq(content, ChunkSize + 1, Len(content)))

\* md5.update, reduced to one byte of state
RECURSIVE md5_update(_, _)
md5_update(h, chunk) ==
    IF chunk = <<>> THEN h
    ELSE md5_update((h * 33 + Head(chunk)) % 256, Tail(chunk))

RECURSIVE md5_fold(_, _)
md5_fold(h, chunks) ==
    IF chunks = <<>> THEN h ELSE md5_fold(md5_update(h, Head(chunks)), Tail(chunks))

hexlify(h) == <<HexDigits[(h \div 16) + 1], HexDigits[(h % 16) + 1]>>

checksum_md5(content) == hexlify(md5_fold(103, Chunks(content)))

\* ------------------------------------------------------------ copy_file
\* What the world does to one copy_file call: the exit status of ditto,
\* whether a failing ditto had already made the target directory, the content
\* of the source file, the content found in the target file when it is read
\* back, and which of the two reads of checksum_md5, if any, fails.
Outcomes ==
    {[status |-> 1, made |-> m, src |-> <<>>, tgt |-> <<>>, io |-> "none"] : m \in BOOLEAN}
    \cup {[status |-> 0, made |-> TRUE, src |-> c, tgt |-> d, io |-> "none"] :
            c \in Contents, d \in Contents}
    \cup {[status |-> 0, made |-> TRUE, src |-> <<>>, tgt |-> <<>>, io |-> i] :
            i \in {"source", "target"}}

\* copy_file with the checksums taken before the status of ditto is looked at
copy_file_sums_first(o) ==
    LET src_md5 == checksum_md5(o.src)
        tgt_md5 == checksum_md5(o.tgt)
    IN  IF o.io # "none"
        THEN [ok |-> FALSE, sums |-> <<>>, raised |-> "IOError",
              report |-> [text |-> "", digests |-> <<>>]]
        ELSE IF o.status # 0
        THEN [ok |-> FALSE, sums |-> <<"source", "target">>, raised |-> "",
              report |-> [text |-> "FAILED - OS copy failed", digests |-> <<>>]]
        ELSE IF src_md5 = tgt_md5
        THEN [ok |-> TRUE, sums |-> <<"source", "target">>, raised |-> "",
              report |-> [text |-> "OK. Checksum", digests |-> <<src_md5>>]]
        ELSE [ok |-> FALSE, sums |-> <<"source", "target">>, raised |-> "",
              report |-> [text |-> "FAILED - Checksum mismatch",
                          digests |-> <<src_md5, tgt_md5>>]]

\* copy_file that takes a successful ditto for a successful copy
copy_file_unverified(o) ==
    IF o.status # 0
    THEN [ok |-> FALSE, sums |-> <<>>, raised |-> "",
          report |-> [text |-> "FAILED - OS copy failed", digests |-> <<>>]]
    ELSE IF o.io # "none"
    THEN [ok |-> FALSE, sums |-> <<>>, raised |-> "IOError",
          report |-> [text |-> "", digests |-> <<>>]]
    ELSE [ok |-> TRUE, sums |-> <<"source", "target">>, raised |-> "",
          report |-> [text |-> "OK. Checksum", digests |-> <<checksum_md5(o.src)>>]]

\* copy_file under outcome o: the value returned, the checksums computed,
\* the line printed, the exception raised
copy_file(o) ==
    IF o.status # 0
    THEN [ok |-> FALSE, sums |-> <<>>, raised |-> "",
          report |-> [text |-> "FAILED - OS copy failed", digests |-> <<>>]]
    ELSE IF o.io = "source"
    THEN [ok |-> FALSE, sums |-> <<>>, raised |-> "IOError",
          report |-> [text |-> "", digests |-> <<>>]]
    ELSE IF o.io = "target"
    THEN [ok |-> FALSE, sums |-> <<"source">>, raised |-> "IOError",
          report |-> [text |-> "", digests |-> <<>>]]
    ELSE LET src_md5 == checksum_md5(o.src)
             tgt_md5 == checksum_md5(o.tgt)
         IN  IF src_md5 = tgt_md5
             THEN [ok |-> TRUE, sums |-> <<"source", "target">>, raised |-> "",
                   report |-> [text |-> "OK. Checksum", digests |-> <<src_md5>>]]
             ELSE [ok |-> FALSE, sums |-> <<"source", "target">>, raised |-> "",
                   report |-> [text |-> "FAILED - Checksum mismatch",
                               digests |-> <<src_md5, tgt_md5>>]]

\* ------------------------------------------------------ target file system
Prefixes(p) == {SubSeq(p, 1, k) : k \in 1..Len(p)}

\* ditto source target: a successful ditto makes the directories above the
\* target file and writes the file
DittoDirs(dirs, tgt, o) ==
    IF o.status = 0 \/ o.made THEN dirs \cup Prefixes(normpath(dirname(tgt))) ELSE dirs

DittoFiles(files, tgt, o) == IF o.status = 0 THEN files \cup {normpath(tgt)} ELSE files

\* os.mkdir(p): every component but the last must lead to a directory, and
\* the last must name nothing that exists ("." always does)
mkdir_errno(dirs, files, p) ==
    LET parent == normpath(dirname(p))
        made == Append(parent, Last(p))
    IN  IF parent \notin dirs THEN "ENOENT"
        ELSE IF Last(p) \in {".", ".."} THEN "EEXIST"
        ELSE IF made \in dirs \/ made \in files THEN "EEXIST"
        ELSE "ok"

\* --------------------------------------------------- copy_dir and do_copy
\* the target named after the last component of the source directory only
TargetForBasename(dir, src_root, tgt_root) ==
    join(tgt_root, IF abspath(dir) = abspath(src_root) THEN <<".">> ELSE <<Last(dir)>>)

\* lines 137-138: the target of one source directory
TargetFor(dir, src_root, tgt_root) == join(tgt_root, relpath(dir, src_root))

\* lines 137-139
CopyList(src_list, src_root, tgt_root) ==
    [i \in 1..Len(src_list) |->
        <<src_list[i][1], TargetFor(src_list[i][1], src_root, tgt_root)>>]

\* the loop of do_copy taking the copy list from its end
PairAtReversed(list, i) == list[Len(list) + 1 - i]

\* line 151: the i-th pair the loop of do_copy takes from the copy list
PairAt(list, i) == list[i]

CurrentPair == PairAt(copy_list, idx)

\* the counts of copy_dir with an error flag in place of the error count
CountFileFlag(count, ok) == <<count[1] + 1, IF ok THEN count[2] ELSE 1>>

\* lines 101-104: the counts of copy_dir after one file
CountFile(count, ok) == <<count[1] + 1, IF ok THEN count[2] ELSE count[2] + 1>>

\* the totals of do_copy assigned, not added to
FoldAssign(tot, res) == <<res[1], res[2]>>

\* lines 155-156: the totals of do_copy after one directory
Fold(tot, res) == <<tot[1] + res[1], tot[2] + res[2]>>

\* no copy_file call yet
NoCall == [name |-> "", status |-> 0, src |-> <<>>, tgt |-> <<>>, ok |-> FALSE,
           sums |-> <<>>, raised |-> "", report |-> [text |-> "", digests |-> <<>>]]

TypeOK ==
    /\ pc \in {"start", "gate1", "gate2", "copy_dir", "done", "raised"}
    /\ exc \in {"", "IndexError", "IOError", "OSError"}
    /\ writes \in Nat

\* do_copy is entered with the arguments args on a source tree of at most n
\* directories
Start(n, args) ==
    /\ srcfs \in SourceTrees(n)
    /\ source \in args
    /\ target \in TargetArgs
    /\ tgtDirs \in {Prefixes(cwd), Prefixes(abspath(target))}
    /\ tgtFiles = {}
    /\ pc = "start"
    /\ source_root = <<>>
    /\ source_list = <<>>
    /\ copy_list = <<>>
    /\ idx = 0
    /\ pos = 0
    /\ dir_count = <<0, 0>>
    /\ total = <<0, 0>>
    /\ retval = <<>>
    /\ exc = ""
    /\ answers = <<>>
    /\ shown = <<>>
    /\ calls = <<>>
    /\ attempted = <<>>
    /\ failed = 0
    /\ last = NoCall
    /\ results = <<>>
    /\ writes = 0

Init == Start(MaxDirs, RunSourceArgs)

\* lines 120-131: walk the source, list it
Discover ==
    /\ pc = "start"
    /\ \E ord \in Perms(DirNames) :
         LET tree == walk(srcfs, source, ord)
         IN  /\ source_root' = abspath(tree[1].path)
             /\ source_list' = [i \in 1..Len(tree) |->
                                  <<abspath(tree[i].path), Len(tree[i].files)>>]
    /\ pc' = "gate1"
    /\ UNCHANGED <<srcfs, source, target, tgtDirs, tgtFiles, copy_list, idx, pos,
                   dir_count, total, retval, exc, answers, shown, calls, attempted,
                   failed, last, results, writes>>

\* an exception leaves do_copy
Raise(e) ==
    /\ pc' = "raised"
    /\ exc' = e

\* lines 96-98: copy_dir is entered for the pair at i
EnterCopyDir(i) ==
    /\ idx' = i
    /\ pos' = 1
    /\ dir_count' = <<0, 0>>
    /\ attempted' = <<>>
    /\ failed' = 0
    /\ calls' = Append(calls, PairAt(copy_list, i))

\* lines 132-144: the first prompt, then the copy list
Gate1 ==
    /\ pc = "gate1"
    /\ \E typed \in Typed :
         LET response == query_yes_no(typed)
         IN  IF response = "IndexError"
             THEN /\ Raise("IndexError")
                  /\ UNCHANGED <<answers, retval, copy_list, shown>>
             ELSE /\ answers' = Append(answers, response)
                  /\ exc' = exc
                  /\ IF Declined(response)
                     THEN /\ retval' = <<0, 0>>
                          /\ pc' = "done"
                          /\ UNCHANGED <<copy_list, shown>>
                     ELSE /\ copy_list' = CopyList(source_list, source_root, abspath(target))
                          /\ shown' = copy_list'
                          /\ pc' = "gate2"
                          /\ retval' = retval
    /\ UNCHANGED <<srcfs, source, target, tgtDirs, tgtFiles, source_root, source_list,
                   idx, pos, dir_count, total, calls, attempted, failed, last,
                   results, writes>>

\* lines 145-152: the second prompt, then the first copy_dir call
Gate2 ==
    /\ pc = "gate2"
    /\ \E typed \in Typed :
         LET response == query_yes_no(typed)
         IN  IF response = "IndexError"
             THEN /\ Raise("IndexError")
                  /\ UNCHANGED <<answers, retval, idx, pos, dir_count, attempted, failed,
                                 calls, total>>
             ELSE /\ answers' = Append(answers, response)
                  /\ exc' = exc
                  /\ IF Declined(response)
                     THEN /\ retval' = <<0, 0>>
                          /\ pc' = "done"
                          /\ UNCHANGED <<idx, pos, dir_count, attempted, failed, calls, total>>
                     ELSE /\ total' = <<0, 0>>
                          /\ EnterCopyDir(1)
                          /\ pc' = "copy_dir"
                          /\ retval' = retval
    /\ UNCHANGED <<srcfs, source, target, tgtDirs, tgtFiles, source_root, source_list,
                   copy_list, shown, last, results, writes>>

\* lines 99-104 with copy_file, lines 73-88: one regular file of the directory
CopyFile ==
    /\ pc = "copy_dir"
    /\ pos <= Len(listfiles(srcfs, CurrentPair[1]))
    /\ \E o \in Outcomes :
         LET file_name == listfiles(srcfs, CurrentPair[1])[pos]
             src == join(CurrentPair[1], <<file_name>>)
             tgt == join(CurrentPair[2], <<file_name>>)
             r == copy_file(o)
         IN  /\ tgtDirs' = DittoDirs(tgtDirs, tgt, o)
             /\ tgtFiles' = DittoFiles(tgtFiles, tgt, o)
             /\ writes' = writes + 1
             /\ attempted' = Append(attempted, file_name)
             /\ failed' = IF r.raised = "" /\ ~r.ok THEN failed + 1 ELSE failed
             /\ last' = [name |-> file_name, status |-> o.status, src |-> o.src,
                         tgt |-> o.tgt, ok |-> r.ok, sums |-> r.sums,
                         raised |-> r.raised, report |-> r.report]
             /\ IF r.raised # ""
                THEN /\ Raise(r.raised)
                     /\ UNCHANGED <<pos, dir_count>>
                ELSE /\ dir_count' = CountFile(dir_count, r.ok)
                     /\ pos' = pos + 1
                     /\ UNCHANGED <<pc, exc>>
    /\ UNCHANGED <<srcfs, source, target, source_root, source_list, copy_list, idx,
                   total, retval, answers, shown, calls, results>>

\* lines 106-111, then lines 153-158: the directory is done; an empty one is
\* made on the target; the totals grow; the next copy_dir call or the return
CopyDirReturn ==
    /\ pc = "copy_dir"
    /\ pos > Len(listfiles(srcfs, CurrentPair[1]))
    /\ LET tgt == CurrentPair[2]
           errno == IF dir_count[1] = 0 THEN mkdir_errno(tgtDirs, tgtFiles, tgt) ELSE "ok"
       IN  /\ writes' = IF dir_count[1] = 0 THEN writes + 1 ELSE writes
           /\ IF errno # "ok"
              THEN /\ Raise("OSError")
                   /\ UNCHANGED <<tgtDirs, total, results, idx, pos, dir_count,
                                  attempted, failed, calls, retval>>
              ELSE /\ tgtDirs' = IF dir_count[1] = 0
                                 THEN tgtDirs \cup {normpath(tgt)} ELSE tgtDirs
                   /\ total' = Fold(total, dir_count)
                   /\ results' = Append(results,
                          [source |-> CurrentPair[1], target |-> tgt,
                           files |-> dir_count[1], errors |-> dir_count[2],
                           attempted |-> attempted, failed |-> failed])
                   /\ exc' = exc
                   /\ IF idx < Len(copy_list)
                      THEN /\ EnterCopyDir(idx + 1)
                           /\ UNCHANGED <<pc, retval>>
                      ELSE /\ retval' = total'
                           /\ pc' = "done"
                           /\ UNCHANGED <<idx, pos, dir_count, attempted, failed, calls>>
    /\ UNCHANGED <<srcfs, source, target, tgtFiles, source_root, source_list,
                   copy_list, answers, shown, last>>

Next == Discover \/ Gate1 \/ Gate2 \/ CopyFile \/ CopyDirReturn

Spec == Init /\ [][Next]_vars

\* the making of the plan alone, on larger trees: do_copy up to the second prompt
PlanInit == Start(MaxPlanDirs, SourceArgs)

PlanNext == Discover \/ Gate1

PlanSpec == PlanInit /\ [][PlanNext]_vars

\* ================================================================ claims
Answered(r) == \E i \in 1..Len(answers) : answers[i] = r

\* the operator accepted at both prompts
Accepted == answers = <<"y", "y">>

\* the files and directories directly inside a directory outside the source tree
EntriesOf(p) == {q \in tgtDirs \cup tgtFiles : q # <<"/">> /\ Front(q) = normpath(p)}

\* copy_dir call i is over, by a return or by an exception
CallOver(i) == i < Len(calls) \/ (i = Len(calls) /\ pc \in {"done", "raised"})

\* copy_dir call i has just returned: nothing was done after it
JustReturned(i) ==
    /\ Len(results) = i
    /\ \/ pc = "done"
       \/ pc = "copy_dir" /\ pos = 1

\* the regular files of the whole source tree
TreeFiles == SumOver(srcfs, DOMAIN srcfs)

RECURSIVE SumResults(_)
SumResults(rs) ==
    IF rs = <<>> THEN <<0, 0>>
    ELSE LET rest == SumResults(Tail(rs))
         IN  <<Head(rs).files + rest[1], Head(rs).errors + rest[2]>>

\* C1: an operator who answers 'n' at either prompt aborts the run: do_copy
\* returns (0, 0) and no copy_dir call, ditto or os.mkdir is ever made.
C1_DeclineAborts ==
    Answered("n") =>
        /\ calls = <<>>
        /\ writes = 0
        /\ pc \notin {"copy_dir"}
        /\ pc = "done" => retval = <<0, 0>>

\* C2: an os.mkdir that fails in copy_dir does not end the run: do_copy goes
\* on to the later pairs and returns the totals.
C2_MkdirFailureConfined == Accepted => ~(pc = "raised" /\ exc = "OSError")

\* C7: every copy_dir call on a source directory without regular files
\* returns (0, 0) and leaves its target as an existing, empty directory.
C7_EmptyDirCreated ==
    \A i \in 1..Len(calls) :
        (Accepted /\ srcfs[RelOf(calls[i][1])] = 0 /\ CallOver(i)) =>
            /\ i <= Len(results)
            /\ results[i].files = 0 /\ results[i].errors = 0
            /\ normpath(calls[i][2]) \in tgtDirs
            /\ JustReturned(i) => EntriesOf(calls[i][2]) = {}

\* C10: a checksum read that fails after a successful ditto makes copy_file
\* a Failure that is counted, and the run goes on.
C10_ReadErrorIsFailure ==
    (Accepted /\ last.name # "" /\ last.status = 0 /\ last.raised = "IOError") =>
        /\ pc # "raised"
        /\ failed >= 1 \/ \E i \in 1..Len(results) : results[i].errors >= 1

\* C3: a file whose copy fails by a non-zero ditto status or a checksum
\* mismatch does not stop copy_dir: the loop is at every moment exactly as far
\* as the files attempted, every copy_dir call that returns has attempted
\* every regular file of its directory once, in listing order, its error
\* count is the number of copy_file calls that returned False and its file
\* count the number of files attempted; only an exception ends the run.
C3_FileErrorsConfined ==
    /\ pc = "copy_dir" =>
          /\ attempted = SubSeq(listfiles(srcfs, copy_list[idx][1]), 1, pos - 1)
          /\ dir_count = <<Len(attempted), failed>>
    /\ \A i \in 1..Len(results) :
          /\ results[i].attempted = listfiles(srcfs, results[i].source)
          /\ results[i].files = Len(results[i].attempted)
          /\ results[i].errors = results[i].failed
    /\ pc = "raised" =>
          \/ exc = "IndexError" /\ calls = <<>>
          \/ exc = "IOError" /\ last.raised = "IOError" /\ last.status = 0
          \/ exc = "OSError" /\ dir_count = <<0, 0>> /\ failed = 0

\* a directory of two files, both failed, has returned
C3_Witness ==
    \E i \in 1..Len(results) : results[i].files = 2 /\ results[i].errors = 2

\* C4: after a non-zero ditto status copy_file returns False with no checksum
\* computed; a checksum is computed only after a ditto of status zero.
C4_NoChecksumAfterFailedCopy ==
    last.name # "" =>
        /\ last.status # 0 => (~last.ok /\ last.sums = <<>> /\ last.raised = "")
        /\ last.sums # <<>> => last.status = 0
        /\ last.status # 0 => last.report.digests = <<>>

\* a copy_file call whose ditto failed
C4_Witness == last.name # "" /\ last.status # 0 /\ pc = "copy_dir"

\* C5: a copy_file call that returns, returns True exactly when ditto
\* succeeded and the digest of the source content equals the digest of the
\* target content read back; a mismatch is reported with both digests.
C5_SuccessIffDigestsAgree ==
    (last.name # "" /\ last.raised = "") =>
        LET src_md5 == checksum_md5(last.src)
            tgt_md5 == checksum_md5(last.tgt)
        IN  /\ last.ok <=> (last.status = 0 /\ src_md5 = tgt_md5)
            /\ last.ok => last.report.digests = <<src_md5>>
            /\ (last.status = 0 /\ src_md5 # tgt_md5) =>
                  /\ ~last.ok
                  /\ last.report.digests = <<src_md5, tgt_md5>>

\* a copy that succeeded with a target that differs when read back
C5_Witness ==
    /\ last.name # "" /\ last.raised = "" /\ last.status = 0
    /\ last.src # last.tgt /\ ~last.ok /\ Len(last.report.digests) = 2

\* the target a source directory must get: the target root, then the
\* components that lead from the source root to the directory
Expected(dir) ==
    abspath(target) \o (IF RelOf(dir) = <<>> THEN <<".">> ELSE RelOf(dir))

\* C6: the copy list has exactly one pair per directory of the source tree,
\* the root included; the target of a pair is the target root joined with the
\* path of the source directory relative to the source root, whatever the
\* order of the walk; distinct directories get distinct targets.
C6_PlanIsRelativeMapping ==
    (pc \in {"gate2", "copy_dir", "done"} \/ copy_list # <<>>) =>
        /\ Len(copy_list) = Cardinality(DOMAIN srcfs)
        /\ {RelOf(copy_list[i][1]) : i \in 1..Len(copy_list)} = DOMAIN srcfs
        /\ \A i \in 1..Len(copy_list) :
              /\ copy_list[i][1] = SrcRoot \o RelOf(copy_list[i][1])
              /\ copy_list[i][2] = Expected(copy_list[i][1])
        /\ \A i, j \in 1..Len(copy_list) :
              i # j => /\ copy_list[i][1] # copy_list[j][1]
                       /\ copy_list[i][2] # copy_list[j][2]

\* a copy list of a tree three directories deep with a name used twice
C6_Witness ==
    /\ Len(copy_list) >= 4
    /\ \E i, j \in 1..Len(copy_list) :
          /\ i # j
          /\ Last(copy_list[i][1]) = Last(copy_list[j][1])
          /\ Len(RelOf(copy_list[i][1])) = 2

\* C8: when do_copy returns after the loop, what it returns is the sum of the
\* results of the copy_dir calls, one per pair of the copy list in its order;
\* while the loop runs the errors counted never exceed the files counted;
\* when no copy failed the return value is (files of the tree, 0).
C8_TotalsAreSums ==
    /\ pc = "done" =>
          /\ retval = SumResults(results)
          /\ Len(results) = Len(copy_list)
          /\ \A i \in 1..Len(results) :
                <<results[i].source, results[i].target>> = copy_list[i]
          /\ (\A i \in 1..Len(results) : results[i].failed = 0)
                => retval = <<TreeFiles, 0>>
    /\ pc = "copy_dir" =>
          /\ total = SumResults(results)
          /\ total[2] <= total[1]
          /\ total[2] + dir_count[2] <= total[1] + dir_count[1]

\* a run that returned the totals of two directories with files, one error
C8_Witness ==
    /\ pc = "done" /\ retval[1] = 2 /\ retval[2] = 1 /\ Len(results) = 2
    /\ \A i \in 1..Len(results) : results[i].files = 1

\* C9: no ditto or os.mkdir happens before the copy list is complete and both
\* prompts are answered; the copy list stays what was shown; the copy_dir
\* calls are the pairs shown, in the order shown.
C9_PlanBeforeWrites ==
    /\ (writes > 0 \/ calls # <<>>) =>
          /\ Len(answers) = 2
          /\ shown # <<>>
          /\ Len(shown) = Len(source_list)
    /\ shown # <<>> => copy_list = shown
    /\ IsPrefix(calls, shown)
    /\ pc = "copy_dir" => Len(calls) = idx
    /\ pc = "done" => calls = shown

\* a run of three directories that wrote and returned
C9_Witness == pc = "done" /\ Len(calls) >= 3 /\ writes >= 2
====
